---- MODULE Spec2Model ----
(***************************************************************************)
(* The agent execution and request-queue subsystem of jvlauncher:          *)
(* src-tauri/src/ai/agent.rs (execute_agent), ai/queue.rs (QueueManager),  *)
(* ai/tools.rs (execute_tool), ai/llm_client.rs (chat_completion) and the  *)
(* ai_queue / settings / notifications tables of database.rs.              *)
(*                                                                         *)
(* Conventions.  Option<T> is a sequence of length 0 (None) or 1 (Some).   *)
(* Text is a TLA+ string, format!/push_str is \o.  A command line, which   *)
(* the code splits into words, is a sequence of one-character strings;     *)
(* Str turns it into text.  The bullet and arrow characters of the prompt  *)
(* texts are written * and ->.                                             *)
(***************************************************************************)
EXTENDS Integers, Sequences, FiniteSets, TLC

\* Bounds of the model.
NumInvocations == 2
MaxConcurrent == 1
MaxToolCalls == 2
MaxApiCalls == 2

Procs == 1..NumInvocations

None == <<>>
Some(v) == <<v>>
IsSome(o) == o # <<>>
Option(S) == {None} \cup {Some(v) : v \in S}
unwrap_or_default(o) == IF o = None THEN "" ELSE o[1]

Ok(v) == [ok |-> TRUE, text |-> v]
Err(e) == [ok |-> FALSE, text |-> e]

RECURSIVE Str(_)
Str(cs) == IF cs = <<>> THEN "" ELSE Head(cs) \o Str(Tail(cs))

RECURSIVE Concat(_)
Concat(parts) == IF parts = <<>> THEN "" ELSE Head(parts) \o Concat(Tail(parts))

(***************************************************************************)
(* str::split_whitespace: the maximal runs of non-whitespace characters.   *)
(***************************************************************************)
IsWhitespace(c) == c \in {" ", "\t", "\n", "\r"}

RECURSIVE SplitFrom(_, _, _)
SplitFrom(cs, word, acc) ==
    IF cs = <<>>
    THEN IF word = <<>> THEN acc ELSE Append(acc, word)
    ELSE IF IsWhitespace(Head(cs))
         THEN SplitFrom(Tail(cs), <<>>, IF word = <<>> THEN acc ELSE Append(acc, word))
         ELSE SplitFrom(Tail(cs), Append(word, Head(cs)), acc)

split_whitespace(cs) == SplitFrom(cs, <<>>, <<>>)

(***************************************************************************)
(* llm_client.rs: the tool definitions and the messages.                   *)
(***************************************************************************)
ChatMessage(role, content) == [role |-> role, content |-> content]

ToolDefinition_notification ==
    [name |-> "send_notification",
     description |-> "Send a notification to the user to inform them about important events, findings, or errors. ONLY use this tool when the user's specified conditions are met or when there's critical information to report. Do NOT send notifications for negative results unless explicitly requested. Examples: 'Product is now in stock', 'Error: Unable to access the website', 'New article found matching your criteria'.",
     required |-> <<"message">>]

ToolDefinition_run_command ==
    [name |-> "run_command",
     description |-> "Execute a system command and get its output. Use this when you need to perform actions or gather additional information by running commands. The command will be executed and you will receive its stdout, stderr, and exit code. You can run any valid system command.",
     required |-> <<"command">>]

(***************************************************************************)
(* agent.rs 22-79: the tool definitions offered and the system prompt,     *)
(* as the sequence of pieces pushed onto it.                               *)
(***************************************************************************)
\* Both tools offered whatever the flags say.
ToolDefinitionsOf_All(a) == <<ToolDefinition_notification, ToolDefinition_run_command>>

ToolDefinitionsOf(a) ==
    (IF a.tool_notification THEN <<ToolDefinition_notification>> ELSE <<>>)
    \o (IF a.tool_run_command THEN <<ToolDefinition_run_command>> ELSE <<>>)

DescNotification ==
    "* send_notification(message: string) - Send a notification ONLY when user's conditions are met or critical info needs reporting"

DescRunCommand ==
    "* run_command(command: string) - Execute a system command and get its output"

ToolDescriptionsOf(a) ==
    (IF a.tool_notification THEN <<DescNotification>> ELSE <<>>)
    \o (IF a.tool_run_command THEN <<DescRunCommand>> ELSE <<>>)

NotificationInstructions ==
    <<"NOTIFICATION: Use send_notification ONLY when the user's specified conditions are met or when there's critical information to report.\n",
      "DO NOT send notifications for negative results (e.g., 'product not available', 'no changes found') unless the user explicitly asks for them.\n",
      "Examples of when to send notifications:\n",
      "  - User says 'notify if product is available' AND product IS available -> send_notification({\"message\": \"Product is now in stock!\"})\n",
      "  - User says 'notify if product is available' AND product is NOT available -> DO NOT send notification\n",
      "  - User says 'check website and notify me' -> send_notification with findings (always notify)\n",
      "  - Error occurs -> send_notification({\"message\": \"Error: Unable to access the website\"})\n\n">>

RunCommandInstructions ==
    <<"RUN COMMAND: Use run_command to execute system commands when you need to perform actions or gather additional information.\n",
      "You can run any valid system command. The command will be executed and you will receive its stdout, stderr, and exit code.\n",
      "Examples of when to use run_command:\n",
      "  - User says 'create a file' -> run_command({\"command\": \"touch /path/to/file\"})\n",
      "  - User says 'check disk space' -> run_command({\"command\": \"df -h\"})\n",
      "  - User says 'list files' -> run_command({\"command\": \"ls -la\"})\n",
      "  - Need to gather system information -> run_command with appropriate command\n\n">>

RECURSIVE Lines(_)
Lines(descs) ==
    IF descs = <<>> THEN <<>> ELSE <<Head(descs) \o "\n">> \o Lines(Tail(descs))

PromptParts(a) ==
    <<a.prompt>>
    \o (IF ToolDescriptionsOf(a) = <<>>
        THEN <<>>
        ELSE <<"\n\n=== AVAILABLE TOOLS ===\n">>
             \o Lines(ToolDescriptionsOf(a))
             \o <<"\n=== TOOL USAGE INSTRUCTIONS ===\n">>
             \o (IF a.tool_notification THEN NotificationInstructions ELSE <<>>)
             \o (IF a.tool_run_command THEN RunCommandInstructions ELSE <<>>)
             \o <<"IMPORTANT: Only use tools when necessary to fulfill the user's request or when there's critical information to report!\n">>)

SystemPrompt(a) == Concat(PromptParts(a))

\* The resolution with the two sources swapped.
ResolveModel_DefaultFirst(a, default) == IF IsSome(default) THEN default ELSE a.model

\* agent.rs 16-20: the agent's own model, else the global default.
ResolveModel(a, default) == IF IsSome(a.model) THEN a.model ELSE default

(***************************************************************************)
(* serde_json: the argument strings a tool call can carry and what         *)
(* serde_json::from_str makes of them.  An object is a function from its   *)
(* keys to values; a string value is a sequence of characters.             *)
(***************************************************************************)
JString(cs) == [type |-> "string", s |-> cs]
JNumber(n) == [type |-> "number", s |-> <<ToString(n)>>]
EmptyObject == [k \in {} |-> JNumber(0)]

ArgsNotify == "{\"message\": \"hi\"}"
ArgsNotifyNumber == "{\"message\": 5}"
ArgsMalformed == "{not valid json}"
ArgsEmpty == "{}"
ArgsCommand == "{\"command\": \"ls -la\"}"
ArgsBlankCommand == "{\"command\": \" \"}"
ArgsUrl == "{\"url\": \"http://site\"}"
ArgsQuotedCommand == "{\"command\": \"echo \\\"hello world\\\"\"}"

from_str(s) ==
    CASE s = ArgsNotify -> Some([message |-> JString(<<"h", "i">>)])
      [] s = ArgsNotifyNumber -> Some([message |-> JNumber(5)])
      [] s = ArgsEmpty -> Some(EmptyObject)
      [] s = ArgsCommand -> Some([command |-> JString(<<"l", "s", " ", "-", "l", "a">>)])
      [] s = ArgsBlankCommand -> Some([command |-> JString(<<" ">>)])
      [] s = ArgsUrl -> Some([url |-> JString(<<"http://site">>)])
      [] s = ArgsQuotedCommand ->
            Some([command |-> JString(<<"e", "c", "h", "o", " ", "\"", "h", "e", "l", "l", "o",
                                        " ", "w", "o", "r", "l", "d", "\"">>)])
      [] OTHER -> None

\* Arguments that do not parse taken as the message itself.
ParseArguments_AsMessage(s) ==
    IF from_str(s) = None THEN [message |-> JString(<<s>>)] ELSE from_str(s)[1]

\* agent.rs 200-201: from_str(..).unwrap_or_else(|_| json!({}))
ParseArguments(s) == IF from_str(s) = None THEN EmptyObject ELSE from_str(s)[1]

\* Value::get(key).and_then(|v| v.as_str())
get_str(obj, key) ==
    IF key \in DOMAIN obj /\ obj[key].type = "string" THEN Some(obj[key].s) ELSE None

(***************************************************************************)
(* What the world outside can answer: a scrape, a spawned process.         *)
(***************************************************************************)
ScrapeOutcomes == {Ok("Widget: in stock"), Err("Failed to fetch URL: 404 Not Found")}

NoOutput == [stdout |-> "", stderr |-> "", code |-> None]

ProcessOutputs ==
    {[stdout |-> "total 0\n", stderr |-> "", code |-> Some(0)],
     [stdout |-> "", stderr |-> "denied\n", code |-> None]}

CommandOutcomes ==
    {[ok |-> TRUE, out |-> o, text |-> ""] : o \in ProcessOutputs}
    \cup {[ok |-> FALSE, out |-> NoOutput, text |-> "No such file or directory (os error 2)"]}

StrAll(words) == [i \in 1..Len(words) |-> Str(words[i])]

Effect(kind, target, args) == [kind |-> kind, target |-> target, args |-> args]
SpawnEffect(parts) == Effect("spawn", Str(parts[1]), StrAll(Tail(parts)))

(***************************************************************************)
(* tools.rs: execute_tool.  Each operator gives the set of outcomes the    *)
(* call can have: its Result, and the side effect it had, if any.          *)
(***************************************************************************)
ToolOutcome(result, effect) == [result |-> result, effect |-> effect]

\* tools.rs 65-80: the report of a finished process.
ReportOf(o) ==
    (IF o.stdout # "" THEN "STDOUT:\n" \o o.stdout \o "\n" ELSE "")
    \o (IF o.stderr # "" THEN "STDERR:\n" \o o.stderr \o "\n" ELSE "")
    \o (IF IsSome(o.code) THEN "Exit code: " \o ToString(o.code[1]) \o "\n" ELSE "")

execute_notification(arguments) ==
    LET message == get_str(arguments, "message") IN
    IF message = None
    THEN {ToolOutcome(Err("Missing 'message' argument"), None)}
    ELSE {ToolOutcome(Ok("Notification sent: " \o Str(message[1])),
                      Some(Effect("notification", Str(message[1]), <<>>)))}

execute_scrape_website(arguments) ==
    LET url == get_str(arguments, "url") IN
    IF url = None
    THEN {ToolOutcome(Err("Missing 'url' argument"), None)}
    ELSE {ToolOutcome(IF r.ok
                      THEN Ok("Website content from " \o Str(url[1]) \o ":\n\n" \o r.text)
                      ELSE r,
                      Some(Effect("scrape", Str(url[1]), <<>>))) : r \in ScrapeOutcomes}

execute_run_command(arguments) ==
    LET command_str == get_str(arguments, "command") IN
    IF command_str = None
    THEN {ToolOutcome(Err("Missing 'command' argument"), None)}
    ELSE LET parts == split_whitespace(command_str[1]) IN
         IF parts = <<>>
         THEN {ToolOutcome(Err("Empty command"), None)}
         ELSE {ToolOutcome(IF c.ok
                           THEN Ok(ReportOf(c.out))
                           ELSE Err("Failed to execute command: " \o c.text),
                           Some(SpawnEffect(parts))) : c \in CommandOutcomes}

execute_tool(tool_name, arguments) ==
    CASE tool_name = "send_notification" -> execute_notification(arguments)
      [] tool_name = "scrape_website" -> execute_scrape_website(arguments)
      [] tool_name = "run_command" -> execute_run_command(arguments)
      [] OTHER -> {ToolOutcome(Err("Unknown tool: " \o tool_name), None)}

\* The tool-role message without the mark of a failure.
ToolResultMessage_Raw(result) == ChatMessage("tool", result.text)

\* agent.rs 205-222: the tool-role message an outcome becomes.
ToolResultMessage(result) ==
    IF result.ok
    THEN ChatMessage("tool", result.text)
    ELSE ChatMessage("tool", "Error: " \o result.text)

(***************************************************************************)
(* The inputs: the stored agents a caller can run and the messages the     *)
(* model backend can answer with.                                          *)
(***************************************************************************)
AgentApp(name, model, tn, tw, tr, url, command) ==
    [name |-> name, model |-> model, prompt |-> "Watch the shop.",
     tool_notification |-> tn, tool_website_scrape |-> tw, tool_run_command |-> tr,
     website_url |-> url, command |-> command]

AgentModels == {"agent-model"}
DefaultModels == {"default-model"}
Urls == {"http://shop"}
Commands == {<<"d", "f", " ", "-", "h">>, <<" ">>}

AllAgents ==
    {AgentApp(Some("Monitor"), m, tn, tw, tr, u, c) :
        m \in Option(AgentModels), tn \in BOOLEAN, tw \in BOOLEAN, tr \in BOOLEAN,
        u \in Option(Urls), c \in Option(Commands)}

ToolCall(name, arguments) ==
    [id |-> "call", type |-> "function", function |-> [name |-> name, arguments |-> arguments]]

AllToolCalls ==
    {ToolCall("send_notification", ArgsNotify),
     ToolCall("send_notification", ArgsMalformed),
     ToolCall("run_command", ArgsCommand),
     ToolCall("run_command", ArgsBlankCommand),
     ToolCall("scrape_website", ArgsUrl),
     ToolCall("delete_files", ArgsEmpty)}

\* The command lines the backend can ask run_command to run.
RunCommandCalls ==
    {ToolCall("run_command", ArgsCommand),
     ToolCall("run_command", ArgsBlankCommand),
     ToolCall("run_command", ArgsQuotedCommand)}

ToolCallLists(calls, n) == UNION {[1..k -> calls] : k \in 0..n}

\* ResponseMessage of llm_client.rs 58-65.
ResponseMessage(content, tool_calls) ==
    [role |-> "assistant", content |-> content, tool_calls |-> tool_calls]

Contents == {"All good"}

Replies(calls, n) ==
    {ResponseMessage(c, t) : c \in Option(Contents), t \in Option(ToolCallLists(calls, n))}

(***************************************************************************)
(* The state.                                                              *)
(***************************************************************************)
VARIABLES
    workload,          \* which agents are stored and what the backend can answer
    ai_enabled,        \* settings: ai_enabled
    default_model,     \* settings: ai_default_model
    max_concurrent,    \* QueueManager
    current_running,   \* QueueManager
    pending_queue,     \* QueueManager (VecDeque of ids)
    ai_queue,          \* table ai_queue: row id is the index
    writes,            \* per row, the statuses written to it so far
    notifications,     \* table notifications
    pc,                \* where each execute_agent invocation is
    agent,             \* its argument
    model,             \* its local model
    messages,          \* its local messages
    queue_id,          \* its local queue_id
    choice,            \* the first choice of its first response
    tool_results,      \* its local tool_results
    finishing,         \* the complete/fail call it is in and what it then returns
    result,            \* what it returned
    calls,             \* the chat_completion calls it made
    executed,          \* what execute_tool returned, call by call
    effects,           \* the side effects it had outside the queue
    QUEUE_MANAGER,     \* the OnceLock: unset, or set to a cell holding None or Some(manager)
    instances,         \* how many QueueManager instances init_queue_manager has made
    api_log            \* the calls made on the queue API from outside execute_agent, with what they returned

catalog == <<workload>>
settings == <<ai_enabled, default_model>>
manager == <<max_concurrent, current_running, pending_queue>>
tables == <<ai_queue, writes, notifications>>
locals == <<agent, model, messages, queue_id, choice, tool_results, finishing>>
history == <<result, calls, executed, effects>>
api == <<QUEUE_MANAGER, instances, api_log>>
vars == <<catalog, settings, manager, tables, pc, locals, history, api>>

NoAgent == AgentApp(None, None, FALSE, FALSE, FALSE, None, None)
NoChoice == ResponseMessage(None, None)
NoFinish == [status |-> "", text |-> "", ret |-> Ok("")]

\* An agent that only notifies, with or without a model of its own.
PlainAgents ==
    {AgentApp(Some("Monitor"), m, TRUE, FALSE, FALSE, None, None) : m \in Option(AgentModels)}

PlainAgent == {a \in PlainAgents : IsSome(a.model)}

\* A final answer, and a request for one notification.
PlainReplies ==
    {ResponseMessage(Some("All good"), None),
     ResponseMessage(None, Some(<<ToolCall("send_notification", ArgsNotify)>>))}

InitState(started) ==
    /\ ai_enabled = FALSE
    /\ default_model = None
    /\ current_running = 0
    /\ pending_queue = <<>>
    /\ ai_queue = <<>>
    /\ writes = <<>>
    /\ notifications = <<>>
    /\ pc = [p \in Procs |-> IF p \in started THEN "idle" ELSE "absent"]
    /\ agent = [p \in Procs |-> NoAgent]
    /\ model = [p \in Procs |-> ""]
    /\ messages = [p \in Procs |-> <<>>]
    /\ queue_id = [p \in Procs |-> 0]
    /\ choice = [p \in Procs |-> NoChoice]
    /\ tool_results = [p \in Procs |-> <<>>]
    /\ finishing = [p \in Procs |-> NoFinish]
    /\ result = [p \in Procs |-> None]
    /\ calls = [p \in Procs |-> <<>>]
    /\ executed = [p \in Procs |-> <<>>]
    /\ effects = [p \in Procs |-> <<>>]

\* init_queue_manager was called once when the application started.
Initialised ==
    /\ QUEUE_MANAGER = Some(Some(1))
    /\ instances = 1
    /\ api_log = <<>>

\* The stored agents a caller can run.
agent_apps(w) ==
    CASE w = "concurrent" -> PlainAgent
      [] w = "config" -> AllAgents
      [] OTHER -> PlainAgents

\* The messages the backend can answer with.
llm_replies(w) ==
    CASE w = "tools" -> Replies(AllToolCalls, MaxToolCalls)
      [] w = "commands" -> Replies(RunCommandCalls, MaxToolCalls)
      [] OTHER -> PlainReplies

\* Concurrent invocations of one plain agent.
Init ==
    /\ workload = "concurrent"
    /\ max_concurrent \in 1..MaxConcurrent
    /\ InitState(Procs)
    /\ Initialised

\* One invocation, every tool call the backend can ask for.
InitTools ==
    /\ workload = "tools"
    /\ max_concurrent \in 0..1
    /\ InitState({1})
    /\ Initialised

\* One invocation, every command line the backend can ask for.
InitCommands ==
    /\ workload = "commands"
    /\ max_concurrent \in 0..1
    /\ InitState({1})
    /\ Initialised

\* One invocation, every configuration an agent can have.
InitConfig ==
    /\ workload = "config"
    /\ max_concurrent \in 0..1
    /\ InitState({1})
    /\ Initialised

\* Two invocations, while the cap is changed and the pending queue is polled
\* from outside.
InitQueue ==
    /\ workload = "concurrent"
    /\ max_concurrent \in 0..1
    /\ InitState({1, 2})
    /\ Initialised

\* Nothing has called init_queue_manager yet; one invocation.  The fields of the
\* manager stand for the one init_queue_manager will make.
InitSingleton ==
    /\ workload = "concurrent"
    /\ max_concurrent = 0
    /\ InitState({1})
    /\ QUEUE_MANAGER = None
    /\ instances = 0
    /\ api_log = <<>>

(***************************************************************************)
(* database.rs: the ai_queue table.                                        *)
(***************************************************************************)
Now == "now"

\* database.rs 871-885
add_queue_item(rows, message, agent_name) ==
    Append(rows, [status |-> "pending", message |-> message, response |-> None,
                  created_at |-> Now, completed_at |-> None, agent_name |-> agent_name])

\* The update that stamps the row whether or not a response comes with it.
update_queue_item_status_AlwaysStamp(rows, id, status, response) ==
    IF id \notin DOMAIN rows
    THEN rows
    ELSE [rows EXCEPT ![id].status = status, ![id].response = response,
                      ![id].completed_at = Some(Now)]

\* database.rs 887-908
update_queue_item_status(rows, id, status, response) ==
    IF id \notin DOMAIN rows
    THEN rows
    ELSE IF IsSome(response)
         THEN [rows EXCEPT ![id].status = status, ![id].response = response,
                           ![id].completed_at = Some(Now)]
         ELSE [rows EXCEPT ![id].status = status]

LogWrite(log, id, status) ==
    IF id \in DOMAIN log THEN [log EXCEPT ![id] = Append(@, status)] ELSE log

(***************************************************************************)
(* llm_client.rs 133-193: chat_completion.  The outcomes a call can have:  *)
(* refused because AI is disabled (nothing is sent), an HTTP or decode     *)
(* error, or a response, of which callers read the first choice only.      *)
(***************************************************************************)
Refused == [ok |-> FALSE, text |-> "AI features are not enabled", choices |-> <<>>]

\* A transport error, a status that is no success and a body that does not
\* decode all end the call with an error text.
HttpErrors == {"Failed to get chat completion: 500 Internal Server Error - overloaded"}

chat_completion(enabled, replies) ==
    IF ~enabled
    THEN {Refused}
    ELSE {[ok |-> FALSE, text |-> e, choices |-> <<>>] : e \in HttpErrors}
         \cup {[ok |-> TRUE, text |-> "", choices |-> <<>>]}
         \cup {[ok |-> TRUE, text |-> "", choices |-> <<r>>] : r \in replies}

\* A call as the history keeps it: the request, whether it reached the backend,
\* and what chat_completion returned (ok, the error text, the number of choices).
Call(m, msgs, tools, sent, o) ==
    [model |-> m, messages |-> msgs, tools |-> tools, sent |-> sent,
     ok |-> o.ok, text |-> o.text, choices |-> Len(o.choices)]

(***************************************************************************)
(* agent.rs: the decisions of execute_agent.                               *)
(***************************************************************************)
Finish(status, text, ret) == [status |-> status, text |-> text, ret |-> ret]

\* The checks without the master switch.
Preflight_NoSwitch(a, enabled, default) ==
    IF ResolveModel(a, default) = None
    THEN Err("No model specified and no default model set")
    ELSE Ok(ResolveModel(a, default)[1])

\* agent.rs 9-20: the checks before anything else is done.
Preflight(a, enabled, default) ==
    IF ~enabled
    THEN Err("AI features are not enabled")
    ELSE IF ResolveModel(a, default) = None
         THEN Err("No model specified and no default model set")
         ELSE Ok(ResolveModel(a, default)[1])

\* agent.rs 112-124: the same report as tools.rs 65-80, under a heading.
InputReport(cmd, o) ==
    "Input command execution result for '" \o Str(cmd) \o "':\n\n" \o ReportOf(o)

Context(msgs, effs) == [messages |-> msgs, effects |-> effs]

\* agent.rs 81-97
PreScrape(a) ==
    IF a.tool_website_scrape /\ IsSome(a.website_url)
    THEN {Context(IF r.ok
                  THEN <<ChatMessage("user",
                            "Please analyze the following website content from "
                            \o a.website_url[1] \o ":\n\n" \o r.text)>>
                  ELSE <<>>,
                  <<Effect("scrape", a.website_url[1], <<>>)>>) : r \in ScrapeOutcomes}
    ELSE {Context(<<>>, <<>>)}

\* An input command whose failure is logged and nothing more.
PreCommand_Silent(a) ==
    IF IsSome(a.command) /\ split_whitespace(a.command[1]) # <<>>
    THEN {Context(IF c.ok
                  THEN <<ChatMessage("user", InputReport(a.command[1], c.out))>>
                  ELSE <<>>,
                  <<SpawnEffect(split_whitespace(a.command[1]))>>) : c \in CommandOutcomes}
    ELSE {Context(<<>>, <<>>)}

\* agent.rs 99-141
PreCommand(a) ==
    IF IsSome(a.command) /\ split_whitespace(a.command[1]) # <<>>
    THEN {Context(<<ChatMessage("user",
                      IF c.ok
                      THEN InputReport(a.command[1], c.out)
                      ELSE "Error executing input command '" \o Str(a.command[1])
                           \o "': " \o c.text)>>,
                  <<SpawnEffect(split_whitespace(a.command[1]))>>) : c \in CommandOutcomes}
    ELSE {Context(<<>>, <<>>)}

\* agent.rs 156-161
ApiTools(a) == IF ToolDefinitionsOf(a) = <<>> THEN None ELSE Some(ToolDefinitionsOf(a))

Step(next, fin, ch, ret) == [pc |-> next, finishing |-> fin, choice |-> ch, ret |-> ret]

\* The first call's error returned with ?, as the second call's is.
FirstCallFailed_Propagate(e) == Step("done", NoFinish, NoChoice, Some(Err(e)))

\* agent.rs 177-183: the first call failed.
FirstCallFailed(e) ==
    Step("fail", Finish("failed", "LLM request failed: " \o e, Err(e)), NoChoice, None)

\* The second call made straight after the first response, its tool calls unrun.
AfterFirstResponse_SkipTools(choices) ==
    IF choices = <<>>
    THEN Step("fail", Finish("failed", "No choices in response", Err("No choices in response")),
              NoChoice, None)
    ELSE IF IsSome(choices[1].tool_calls)
         THEN Step("second_call", NoFinish, choices[1], None)
         ELSE Step("complete",
                   Finish("completed", unwrap_or_default(choices[1].content),
                          Ok(unwrap_or_default(choices[1].content))),
                   choices[1], None)

\* agent.rs 186-255: what the first response leads to.
AfterFirstResponse(choices) ==
    IF choices = <<>>
    THEN Step("fail", Finish("failed", "No choices in response", Err("No choices in response")),
              NoChoice, None)
    ELSE IF IsSome(choices[1].tool_calls)
         THEN Step(IF choices[1].tool_calls[1] = <<>> THEN "second_call" ELSE "tools",
                   NoFinish, choices[1], None)
         ELSE Step("complete",
                   Finish("completed", unwrap_or_default(choices[1].content),
                          Ok(unwrap_or_default(choices[1].content))),
                   choices[1], None)

\* The tool results pushed before the assistant message.
FinalMessages_ToolsFirst(msgs, ch, results) ==
    Append(msgs \o results, ChatMessage("assistant", unwrap_or_default(ch.content)))

\* agent.rs 226-231
FinalMessages(msgs, ch, results) ==
    Append(msgs, ChatMessage("assistant", unwrap_or_default(ch.content))) \o results

\* agent.rs 234: the second call failed; the ? returns the error at once.
SecondCallFailed(e) == Step("done", NoFinish, NoChoice, Some(Err(e)))

\* agent.rs 236-244
AfterSecondResponse(choices) ==
    IF choices = <<>>
    THEN Step("fail", Finish("failed", "No response from LLM", Err("No response from LLM")),
              NoChoice, None)
    ELSE Step("complete",
              Finish("completed", unwrap_or_default(choices[1].content),
                     Ok(unwrap_or_default(choices[1].content))),
              NoChoice, None)

\* A full manager still answers yes.
can_process_Lax == current_running <= max_concurrent

\* queue.rs 51-55
can_process == current_running < max_concurrent

(***************************************************************************)
(* The steps of one execute_agent invocation p.                            *)
(***************************************************************************)

\* agent.rs 7-79: read the settings, resolve the model, build the system message.
Start(p) ==
    /\ pc[p] = "idle"
    /\ \E a \in agent_apps(workload) :
        /\ agent' = [agent EXCEPT ![p] = a]
        /\ IF Preflight(a, ai_enabled, default_model).ok
           THEN /\ model' = [model EXCEPT ![p] = Preflight(a, ai_enabled, default_model).text]
                /\ messages' = [messages EXCEPT ![p] = <<ChatMessage("system", SystemPrompt(a))>>]
                /\ pc' = [pc EXCEPT ![p] = "pre_execute"]
                /\ UNCHANGED result
           ELSE /\ result' = [result EXCEPT ![p] = Some(Preflight(a, ai_enabled, default_model))]
                /\ pc' = [pc EXCEPT ![p] = "done"]
                /\ UNCHANGED <<model, messages>>
    /\ UNCHANGED <<catalog, api, settings, manager, tables, queue_id, choice, tool_results,
                   finishing, calls, executed, effects>>

\* agent.rs 81-141: the configured scrape and the configured input command.
PreExecute(p) ==
    /\ pc[p] = "pre_execute"
    /\ \E s \in PreScrape(agent[p]), c \in PreCommand(agent[p]) :
        /\ messages' = [messages EXCEPT ![p] = @ \o s.messages \o c.messages]
        /\ effects' = [effects EXCEPT ![p] = @ \o s.effects \o c.effects]
    /\ pc' = [pc EXCEPT ![p] = "enqueue"]
    /\ UNCHANGED <<catalog, api, settings, manager, tables, agent, model, queue_id, choice,
                   tool_results, finishing, result, calls, executed>>

\* enqueue that puts every id on the pending queue.
enqueue_AlwaysPending(p) ==
    /\ ai_queue' = add_queue_item(ai_queue, messages[p], agent[p].name)
    /\ writes' = Append(writes, <<"pending">>)
    /\ queue_id' = [queue_id EXCEPT ![p] = Len(ai_queue) + 1]
    /\ pending_queue' = Append(pending_queue, Len(ai_queue) + 1)
    /\ UNCHANGED <<max_concurrent, current_running, notifications>>

\* queue.rs 30-49: enqueue.  The id goes to the pending queue when no slot is free.
enqueue(p) ==
    /\ ai_queue' = add_queue_item(ai_queue, messages[p], agent[p].name)
    /\ writes' = Append(writes, <<"pending">>)
    /\ queue_id' = [queue_id EXCEPT ![p] = Len(ai_queue) + 1]
    /\ pending_queue' = IF current_running < max_concurrent
                        THEN pending_queue
                        ELSE Append(pending_queue, Len(ai_queue) + 1)
    /\ UNCHANGED <<max_concurrent, current_running, notifications>>

NotInitialized == Err("Queue manager not initialized")

\* queue.rs 106-116: the cell after get_or_init(|| Arc::new(Mutex::new(None))).
CellAfterGet(lock) == IF lock = None THEN Some(None) ELSE lock

\* queue.rs 106-116: what get_queue_manager returns, given the cell.
get_queue_manager(cell) == IF cell[1] = None THEN NotInitialized ELSE Ok(cell[1][1])

\* agent.rs 144-146: get the manager (return its error with ?), then enqueue.
Enqueue(p) ==
    /\ pc[p] = "enqueue"
    /\ QUEUE_MANAGER' = CellAfterGet(QUEUE_MANAGER)
    /\ IF get_queue_manager(CellAfterGet(QUEUE_MANAGER)).ok
       THEN /\ enqueue(p)
            /\ pc' = [pc EXCEPT ![p] = "poll"]
            /\ UNCHANGED result
       ELSE /\ result' = [result EXCEPT ![p] = Some(get_queue_manager(CellAfterGet(QUEUE_MANAGER)))]
            /\ pc' = [pc EXCEPT ![p] = "done"]
            /\ UNCHANGED <<manager, tables, queue_id>>
    /\ UNCHANGED <<catalog, settings, agent, model, messages, choice, tool_results,
                   finishing, calls, executed, effects, instances, api_log>>

\* agent.rs 149: can_process() answered true.
Admit(p) ==
    /\ pc[p] = "poll"
    /\ can_process
    /\ pc' = [pc EXCEPT ![p] = "start_processing"]
    /\ UNCHANGED <<catalog, api, settings, manager, tables, locals, history>>

\* agent.rs 149-151: can_process() answered false; sleep and ask again.
Sleep(p) ==
    /\ pc[p] = "poll"
    /\ ~can_process
    /\ UNCHANGED vars

\* A start that writes the status and leaves the counter alone.
start_processing_NoCount(id) ==
    /\ ai_queue' = update_queue_item_status(ai_queue, id, "processing", None)
    /\ writes' = LogWrite(writes, id, "processing")
    /\ current_running' = current_running
    /\ UNCHANGED <<max_concurrent, pending_queue, notifications>>

\* queue.rs 58-62
start_processing(id) ==
    /\ ai_queue' = update_queue_item_status(ai_queue, id, "processing", None)
    /\ writes' = LogWrite(writes, id, "processing")
    /\ current_running' = current_running + 1
    /\ UNCHANGED <<max_concurrent, pending_queue, notifications>>

\* agent.rs 154
StartProcessing(p) ==
    /\ pc[p] = "start_processing"
    /\ start_processing(queue_id[p])
    /\ pc' = [pc EXCEPT ![p] = "first_call"]
    /\ UNCHANGED <<catalog, api, settings, locals, history>>

\* agent.rs 173-255 up to the tool loop: the first chat_completion call.
FirstCall(p) ==
    /\ pc[p] = "first_call"
    /\ \E o \in chat_completion(ai_enabled, llm_replies(workload)) :
        LET step == IF o.ok THEN AfterFirstResponse(o.choices) ELSE FirstCallFailed(o.text) IN
        /\ calls' = [calls EXCEPT ![p] =
                       Append(@, Call(model[p], messages[p], ApiTools(agent[p]), ai_enabled, o))]
        /\ pc' = [pc EXCEPT ![p] = step.pc]
        /\ finishing' = [finishing EXCEPT ![p] = step.finishing]
        /\ choice' = [choice EXCEPT ![p] = step.choice]
        /\ result' = [result EXCEPT ![p] = step.ret]
    /\ UNCHANGED <<catalog, api, settings, manager, tables, agent, model, messages, queue_id,
                   tool_results, executed, effects>>

\* agent.rs 198-223: one round of the tool loop.
ExecuteTool(p) ==
    /\ pc[p] = "tools"
    /\ LET tool_calls == choice[p].tool_calls[1]
           tool_call == tool_calls[Len(tool_results[p]) + 1]
       IN \E out \in execute_tool(tool_call.function.name,
                                  ParseArguments(tool_call.function.arguments)) :
            /\ tool_results' = [tool_results EXCEPT ![p] = Append(@, ToolResultMessage(out.result))]
            /\ executed' = [executed EXCEPT ![p] = Append(@, out.result)]
            /\ effects' = [effects EXCEPT ![p] = @ \o out.effect]
            /\ notifications' =
                 IF IsSome(out.effect) /\ out.effect[1].kind = "notification"
                 THEN Append(notifications, out.effect[1].target)
                 ELSE notifications
            /\ pc' = [pc EXCEPT ![p] =
                        IF Len(tool_results[p]) + 1 = Len(tool_calls) THEN "second_call" ELSE "tools"]
    /\ UNCHANGED <<catalog, api, settings, manager, ai_queue, writes, agent, model, messages,
                   queue_id, choice, finishing, result, calls>>

\* agent.rs 226-244: the second chat_completion call.
SecondCall(p) ==
    /\ pc[p] = "second_call"
    /\ \E o \in chat_completion(ai_enabled, llm_replies(workload)) :
        LET step == IF o.ok THEN AfterSecondResponse(o.choices) ELSE SecondCallFailed(o.text) IN
        /\ calls' = [calls EXCEPT ![p] =
                       Append(@, Call(model[p], FinalMessages(messages[p], choice[p], tool_results[p]),
                                      None, ai_enabled, o))]
        /\ pc' = [pc EXCEPT ![p] = step.pc]
        /\ finishing' = [finishing EXCEPT ![p] = step.finishing]
        /\ result' = [result EXCEPT ![p] = step.ret]
    /\ UNCHANGED <<catalog, api, settings, manager, tables, agent, model, messages, queue_id,
                   choice, tool_results, executed, effects>>

\* complete / fail that take their own id off the pending queue.
finish_PopOwn(id, status, text) ==
    /\ ai_queue' = update_queue_item_status(ai_queue, id, status, Some(text))
    /\ writes' = LogWrite(writes, id, status)
    /\ current_running' = current_running - 1
    /\ pending_queue' = SelectSeq(pending_queue, LAMBDA x : x # id)
    /\ UNCHANGED <<max_concurrent, notifications>>

\* queue.rs 65-74 (complete) and 76-85 (fail): the two differ in the status only.
finish(id, status, text) ==
    /\ ai_queue' = update_queue_item_status(ai_queue, id, status, Some(text))
    /\ writes' = LogWrite(writes, id, status)
    /\ current_running' = current_running - 1
    /\ pending_queue' = IF pending_queue = <<>> THEN <<>> ELSE Tail(pending_queue)
    /\ UNCHANGED <<max_concurrent, notifications>>

\* An invocation that, having completed its item, goes on to fail it.
CompleteOrFail_AlsoFails(p) ==
    /\ pc[p] \in {"complete", "fail"}
    /\ finish(queue_id[p], finishing[p].status, finishing[p].text)
    /\ result' = [result EXCEPT ![p] = Some(finishing[p].ret)]
    /\ pc' = [pc EXCEPT ![p] = IF pc[p] = "complete" THEN "fail" ELSE "done"]
    /\ UNCHANGED <<catalog, api, settings, locals, calls, executed, effects>>

\* agent.rs 180-181, 239-240, 242-243, 249-250, 253-254: complete or fail, then return.
CompleteOrFail(p) ==
    /\ pc[p] \in {"complete", "fail"}
    /\ finish(queue_id[p], finishing[p].status, finishing[p].text)
    /\ result' = [result EXCEPT ![p] = Some(finishing[p].ret)]
    /\ pc' = [pc EXCEPT ![p] = "done"]
    /\ UNCHANGED <<catalog, api, settings, locals, calls, executed, effects>>

(***************************************************************************)
(* The settings, changed from the settings panel at any time.              *)
(***************************************************************************)

\* database.rs 764-771: update_ai_setting("enabled", ..)
update_ai_setting_enabled(b) ==
    /\ ai_enabled' = b
    /\ UNCHANGED <<catalog, api, default_model, manager, tables, pc, locals, history>>

\* database.rs 774-781
set_default_model(m) ==
    /\ default_model' = Some(m)
    /\ UNCHANGED <<catalog, api, ai_enabled, manager, tables, pc, locals, history>>

(***************************************************************************)
(* queue.rs 96-116: the process-wide instance, as callers outside          *)
(* execute_agent use it.                                                   *)
(***************************************************************************)
ApiCall(op, arg, ret) == [op |-> op, arg |-> arg, ret |-> ret]

\* queue.rs 100-103: a new manager is made; get_or_init stores it only if the
\* lock is still unset.
init_queue_manager(max) ==
    /\ Len(api_log) < MaxApiCalls
    /\ instances' = instances + 1
    /\ IF QUEUE_MANAGER = None
       THEN /\ QUEUE_MANAGER' = Some(Some(instances + 1))
            /\ max_concurrent' = max
            /\ current_running' = 0
            /\ pending_queue' = <<>>
       ELSE UNCHANGED <<QUEUE_MANAGER, manager>>
    /\ api_log' = Append(api_log, ApiCall("init_queue_manager", max, Ok(0)))
    /\ UNCHANGED <<catalog, settings, tables, pc, locals, history>>

\* queue.rs 106-116, called from outside execute_agent.
GetQueueManager ==
    /\ Len(api_log) < MaxApiCalls
    /\ QUEUE_MANAGER' = CellAfterGet(QUEUE_MANAGER)
    /\ api_log' = Append(api_log, ApiCall("get_queue_manager", 0,
                                          get_queue_manager(CellAfterGet(QUEUE_MANAGER))))
    /\ UNCHANGED <<catalog, settings, manager, tables, pc, locals, history, instances>>

\* A cap that, when lowered, also takes the slots of items in flight.
set_max_concurrent_Preempting(max) ==
    /\ Len(api_log) < MaxApiCalls
    /\ max_concurrent' = max
    /\ current_running' = IF current_running > max THEN max ELSE current_running
    /\ api_log' = Append(api_log, ApiCall("set_max_concurrent", max, Ok(0)))
    /\ UNCHANGED <<catalog, settings, pending_queue, tables, pc, locals,
                   history, QUEUE_MANAGER, instances>>

\* queue.rs 25-27
set_max_concurrent(max) ==
    /\ Len(api_log) < MaxApiCalls
    /\ max_concurrent' = max
    /\ api_log' = Append(api_log, ApiCall("set_max_concurrent", max, Ok(0)))
    /\ UNCHANGED <<catalog, settings, current_running, pending_queue, tables, pc, locals,
                   history, QUEUE_MANAGER, instances>>

\* get_next_pending without the capacity check.
get_next_pending_Ungated ==
    /\ Len(api_log) < MaxApiCalls
    /\ api_log' = Append(api_log, ApiCall("get_next_pending", 0,
                             IF pending_queue = <<>> THEN None ELSE Some(Head(pending_queue))))
    /\ pending_queue' = IF pending_queue = <<>> THEN <<>> ELSE Tail(pending_queue)
    /\ UNCHANGED <<catalog, settings, max_concurrent, current_running, tables, pc, locals,
                   history, QUEUE_MANAGER, instances>>

\* queue.rs 87-93
get_next_pending ==
    /\ Len(api_log) < MaxApiCalls
    /\ IF ~can_process
       THEN /\ api_log' = Append(api_log, ApiCall("get_next_pending", 0, None))
            /\ UNCHANGED pending_queue
       ELSE /\ api_log' = Append(api_log, ApiCall("get_next_pending", 0,
                                     IF pending_queue = <<>> THEN None ELSE Some(Head(pending_queue))))
            /\ pending_queue' = IF pending_queue = <<>> THEN <<>> ELSE Tail(pending_queue)
    /\ UNCHANGED <<catalog, settings, max_concurrent, current_running, tables, pc, locals,
                   history, QUEUE_MANAGER, instances>>

Invocation(p) ==
    \/ Start(p) \/ PreExecute(p)
    \/ Enqueue(p) \/ Admit(p) \/ Sleep(p) \/ StartProcessing(p)
    \/ FirstCall(p) \/ ExecuteTool(p) \/ SecondCall(p)
    \/ CompleteOrFail(p)

Next ==
    \/ \E p \in Procs : Invocation(p)
    \/ \E b \in BOOLEAN : update_ai_setting_enabled(b)
    \/ \E m \in DefaultModels : set_default_model(m)

Spec == Init /\ [][Next]_vars

\* agent.rs 149-151: the tokio runtime keeps polling every task that can run,
\* and every call and tool execution returns.
SpecFair == Init /\ [][Next]_vars /\ \A p \in Procs : WF_vars(Invocation(p))

SpecTools == InitTools /\ [][Next]_vars

SpecConfig == InitConfig /\ [][Next]_vars

SpecCommands == InitCommands /\ [][Next]_vars

(***************************************************************************)
(* Gated access: the can_process that answers true (agent.rs 149) and the   *)
(* start_processing that follows it (agent.rs 154) with no other operation *)
(* on the manager in between, and a cap that is only ever raised.           *)
(***************************************************************************)
GatedStart(p) ==
    /\ pc[p] = "poll"
    /\ can_process
    /\ start_processing(queue_id[p])
    /\ pc' = [pc EXCEPT ![p] = "first_call"]
    /\ UNCHANGED <<catalog, api, settings, locals, history>>

RaiseMaxConcurrent(max) ==
    /\ max >= max_concurrent
    /\ set_max_concurrent(max)

NextGated ==
    \/ \E p \in Procs :
          \/ Start(p) \/ PreExecute(p) \/ Enqueue(p)
          \/ GatedStart(p) \/ Sleep(p)
          \/ FirstCall(p) \/ ExecuteTool(p) \/ SecondCall(p)
          \/ CompleteOrFail(p)
    \/ \E b \in BOOLEAN : update_ai_setting_enabled(b)
    \/ \E m \in DefaultModels : set_default_model(m)
    \/ \E max \in 0..1 : RaiseMaxConcurrent(max)
    \/ get_next_pending

SpecGated == InitQueue /\ [][NextGated]_vars

NextQueue ==
    \/ Next
    \/ \E max \in 0..1 : set_max_concurrent(max)
    \/ get_next_pending

SpecQueue == InitQueue /\ [][NextQueue]_vars

(***************************************************************************)
(* The durable store refuses a statement.                                  *)
(***************************************************************************)

\* database.rs 872, 879-882, 889, 896-904: pool.get()? and conn.execute(..)?.
DbErrors == {"database is locked"}

\* queue.rs 31: add_queue_item(..)? returned the error before anything else ran.
enqueue_failed ==
    UNCHANGED <<max_concurrent, current_running, pending_queue, ai_queue, writes, notifications>>

\* queue.rs 59: update_queue_item_status(..)? returned the error before the
\* counter was touched.
start_processing_failed(id) ==
    UNCHANGED <<max_concurrent, current_running, pending_queue, ai_queue, writes, notifications>>

\* A failed completion that gives the slot back and pops the FIFO all the same.
finish_failed_Released(id) ==
    /\ current_running' = current_running - 1
    /\ pending_queue' = IF pending_queue = <<>> THEN <<>> ELSE Tail(pending_queue)
    /\ UNCHANGED <<max_concurrent, ai_queue, writes, notifications>>

\* queue.rs 66 (complete) and 77 (fail): update_queue_item_status(..)? returned
\* the error before the counter and the FIFO were touched.
finish_failed(id) ==
    /\ current_running' = current_running
    /\ pending_queue' = pending_queue
    /\ UNCHANGED <<max_concurrent, ai_queue, writes, notifications>>

\* agent.rs 144-146: enqueue(..)? returns the store's error.
EnqueueFails(p) ==
    /\ pc[p] = "enqueue"
    /\ QUEUE_MANAGER' = CellAfterGet(QUEUE_MANAGER)
    /\ get_queue_manager(CellAfterGet(QUEUE_MANAGER)).ok
    /\ enqueue_failed
    /\ \E e \in DbErrors : result' = [result EXCEPT ![p] = Some(Err(e))]
    /\ pc' = [pc EXCEPT ![p] = "done"]
    /\ UNCHANGED <<catalog, settings, locals, calls, executed, effects, instances, api_log>>

\* agent.rs 154: start_processing(queue_id)? returns the store's error.
StartProcessingFails(p) ==
    /\ pc[p] = "start_processing"
    /\ start_processing_failed(queue_id[p])
    /\ \E e \in DbErrors : result' = [result EXCEPT ![p] = Some(Err(e))]
    /\ pc' = [pc EXCEPT ![p] = "done"]
    /\ UNCHANGED <<catalog, api, settings, locals, calls, executed, effects>>

\* agent.rs 180, 239, 242, 249, 253: complete(..)? or fail(..)? returns the
\* store's error in place of the invocation's own result.
CompleteOrFailFails(p) ==
    /\ pc[p] \in {"complete", "fail"}
    /\ finish_failed(queue_id[p])
    /\ \E e \in DbErrors : result' = [result EXCEPT ![p] = Some(Err(e))]
    /\ pc' = [pc EXCEPT ![p] = "done"]
    /\ UNCHANGED <<catalog, api, settings, locals, calls, executed, effects>>

NextFaulty ==
    \/ Next
    \/ \E p \in Procs : EnqueueFails(p)
    \/ \E p \in Procs : StartProcessingFails(p)
    \/ \E p \in Procs : CompleteOrFailFails(p)

SpecFaulty == InitQueue /\ [][NextFaulty]_vars

NextSingleton ==
    \/ Next
    \/ \E max \in 0..1 : init_queue_manager(max)
    \/ GetQueueManager

SpecSingleton == InitSingleton /\ [][NextSingleton]_vars

(***************************************************************************)
(* The claims.                                                             *)
(***************************************************************************)
Returned(p) == pc[p] = "done"
Enqueued(p) == queue_id[p] # 0
RowOf(p) == ai_queue[queue_id[p]]
Terminal == {"completed", "failed"}
TerminalWrites(id) == {i \in DOMAIN writes[id] : writes[id][i] \in Terminal}
Processing == {id \in DOMAIN ai_queue : ai_queue[id].status = "processing"}
Returns(p) == pc[p] # "done" /\ pc'[p] = "done"
FirstCallErr(p) == Len(calls[p]) >= 1 /\ ~calls[p][1].ok
FirstChoice(p) == Len(calls[p]) >= 1 /\ calls[p][1].ok /\ calls[p][1].choices > 0
AiDisabled == Err("AI features are not enabled")
NoModelConfigured == Err("No model specified and no default model set")

\* C1: with max_concurrent = 1, at most one queue item is being processed and
\* current_running never exceeds max_concurrent, however many invocations poll
\* can_process and then call start_processing.
C1_AdmissionCap ==
    max_concurrent = 1 =>
        /\ current_running <= max_concurrent
        /\ Cardinality(Processing) <= 1

\* C2: the queue item of every invocation whose chat-completion calls have all
\* returned gets exactly one of completed / failed written to it; stated of the
\* invocation that has returned, after which nothing writes to its item.
C2_TerminalStatusWritten ==
    \A p \in Procs :
        (Returned(p) /\ Enqueued(p)) => Cardinality(TerminalWrites(queue_id[p])) = 1

\* C3: when execute_agent has returned after enqueueing, its item carries the
\* terminal status that agrees with the returned Result: Ok(text) with completed
\* and response text, Err with failed and an error text; never pending or processing.
C3_ResultAgreesWithQueue ==
    \A p \in Procs :
        (Returned(p) /\ Enqueued(p)) =>
            /\ RowOf(p).status \in Terminal
            /\ result[p][1].ok =>
                   (RowOf(p).status = "completed" /\ RowOf(p).response = Some(result[p][1].text))
            /\ ~result[p][1].ok =>
                   (RowOf(p).status = "failed" /\ IsSome(RowOf(p).response))

\* C4: when the second chat-completion call fails or returns no choice, the step in
\* which execute_agent returns marks the item failed, gives the slot back
\* (current_running decremented) and returns an error.
C4_SecondCallFailureMarksFailed ==
    [][\A p \in Procs :
          (Returns(p) /\ Len(calls'[p]) = 2
                      /\ (~calls'[p][2].ok \/ calls'[p][2].choices = 0)) =>
              /\ ~result'[p][1].ok
              /\ ai_queue'[queue_id[p]].status = "failed"
              /\ current_running' = current_running - 1]_vars

C6_DisabledFailsFast ==
    [][\A p \in Procs :
          (pc[p] = "idle" /\ pc'[p] # "idle" /\ ~ai_enabled) =>
              /\ pc'[p] = "done"
              /\ result'[p] = Some(AiDisabled)
              /\ calls'[p] = <<>> /\ effects'[p] = <<>> /\ queue_id'[p] = 0
              /\ UNCHANGED <<manager, tables>>]_vars

\* An invocation was refused at the start while another one's item is in the queue.
C6_Witness ==
    \E p \in Procs :
        /\ Returned(p) /\ result[p] = Some(AiDisabled)
        /\ ~Enqueued(p) /\ calls[p] = <<>>
        /\ ai_queue # <<>>

\* C7: both chat-completion calls use the agent's own model if it has one, else
\* the global default model; an invocation that starts with neither returns
\* NoModelConfigured with no queue item and no call.
C7_ModelResolution ==
    /\ [](\A p \in Procs :
            /\ \A i \in DOMAIN calls[p] :
                   calls[p][i].model =
                       IF IsSome(agent[p].model) THEN agent[p].model[1] ELSE default_model[1]
            /\ (Returned(p) /\ result[p] = Some(NoModelConfigured)) =>
                   /\ agent[p].model = None
                   /\ ~Enqueued(p) /\ calls[p] = <<>>)
    /\ [][\A p \in Procs :
            (pc[p] = "idle" /\ pc'[p] # "idle" /\ ai_enabled
                /\ agent'[p].model = None /\ default_model = None) =>
                /\ pc'[p] = "done"
                /\ result'[p] = Some(NoModelConfigured)
                /\ UNCHANGED <<ai_queue, calls, effects>>]_vars

\* Both calls were made with the default model, the agent having none of its own.
C7_Witness ==
    \E p \in Procs :
        /\ Len(calls[p]) = 2
        /\ agent[p].model = None
        /\ calls[p][1].model = "default-model" /\ calls[p][2].model = "default-model"

\* A first choice carries no tool calls: the field is absent, or the list is empty.
CarriesNoToolCalls(ch) == ch.tool_calls = None \/ ch.tool_calls = Some(<<>>)

\* C8: when the first choice carries no tool calls, no tool is executed, no second
\* call is made, and the item is completed with the content (empty if null),
\* which is also what execute_agent returns.
C8_NoToolCallsCompletes ==
    \A p \in Procs :
        (FirstChoice(p) /\ CarriesNoToolCalls(choice[p])) =>
            /\ Len(calls[p]) = 1
            /\ executed[p] = <<>>
            /\ Returned(p) =>
                   /\ result[p] = Some(Ok(unwrap_or_default(choice[p].content)))
                   /\ RowOf(p).status = "completed"
                   /\ RowOf(p).response = Some(unwrap_or_default(choice[p].content))

\* The results execute_tool can return for a requested tool call.
ResultsOf(tool_call) ==
    {out.result : out \in execute_tool(tool_call.function.name,
                                       ParseArguments(tool_call.function.arguments))}

\* C9: for a first response with n tool calls, the second call's messages are the
\* first call's messages, then one assistant message with the first response's
\* content (empty if null), then n tool messages, the i-th being the result of the
\* i-th requested tool call.
C9_ConversationAssembly ==
    \A p \in Procs :
        Len(calls[p]) = 2 =>
            LET first == calls[p][1].messages
                second == calls[p][2].messages
                requested == choice[p].tool_calls[1]
                n == Len(requested)
            IN /\ Len(second) = Len(first) + 1 + n
               /\ SubSeq(second, 1, Len(first)) = first
               /\ second[Len(first) + 1] =
                      ChatMessage("assistant", unwrap_or_default(choice[p].content))
               /\ Len(executed[p]) = n
               /\ \A i \in 1..n :
                      /\ executed[p][i] \in ResultsOf(requested[i])
                      /\ second[Len(first) + 1 + i].role = "tool"
                      /\ second[Len(first) + 1 + i].content =
                             IF executed[p][i].ok
                             THEN executed[p][i].text
                             ELSE "Error: " \o executed[p][i].text

\* The second call was made after two tool calls with different results and a
\* first response that had content.
C9_Witness ==
    \E p \in Procs :
        /\ Len(calls[p]) = 2
        /\ Len(executed[p]) = 2
        /\ executed[p][1] # executed[p][2]
        /\ IsSome(choice[p].content)
        /\ Len(calls[p][2].messages) = Len(calls[p][1].messages) + 3

\* C10: a tool call whose execution fails becomes the tool message
\* "Error: {message}"; the loop goes on to the remaining tool calls and the
\* second call is still made.  Unknown tools, missing arguments and empty
\* commands fail whatever the world answers.
C10_ToolFailuresDoNotAbort ==
    \A p \in Procs :
        /\ Len(tool_results[p]) = Len(executed[p])
        /\ \A i \in DOMAIN executed[p] :
               LET tool_call == choice[p].tool_calls[1][i] IN
               /\ executed[p][i] \in ResultsOf(tool_call)
               /\ (tool_call.function.name \notin {"send_notification", "scrape_website", "run_command"}
                      \/ tool_call.function.arguments \in {ArgsMalformed, ArgsBlankCommand})
                    => ~executed[p][i].ok
               /\ ~executed[p][i].ok =>
                      tool_results[p][i] = ChatMessage("tool", "Error: " \o executed[p][i].text)
        /\ (executed[p] # <<>> /\ \E i \in DOMAIN executed[p] : ~executed[p][i].ok) =>
               /\ pc[p] = "tools" => Len(executed[p]) < Len(choice[p].tool_calls[1])
               /\ pc[p] # "tools" =>
                      /\ Len(executed[p]) = Len(choice[p].tool_calls[1])
                      /\ (pc[p] = "second_call" \/ Len(calls[p]) = 2)

\* The first of two tool calls failed, the second one ran, and the second call
\* was made.
C10_Witness ==
    \E p \in Procs :
        /\ Len(executed[p]) = 2
        /\ ~executed[p][1].ok /\ executed[p][2].ok
        /\ tool_results[p][1] = ChatMessage("tool", "Error: " \o executed[p][1].text)
        /\ Len(calls[p]) = 2 /\ calls[p][2].sent

(***************************************************************************)
(* The prompt and the configured parameters.                               *)
(***************************************************************************)
Range(seq) == {seq[i] : i \in DOMAIN seq}
Contains(text, piece) ==
    \E i \in 1..(Len(text) - Len(piece) + 1) : SubSeq(text, i, i + Len(piece) - 1) = piece
MakesFirstCall(p) == calls[p] = <<>> /\ calls'[p] # <<>>
Offered(call) == IF call.tools = None THEN {} ELSE Range(call.tools[1])
OfferedNames(call) == {t.name : t \in Offered(call)}
SystemMessage(call) == call.messages[1]

\* C11 as stated: each of the three capability flags, tool_website_scrape
\* included, decides whether its tool is offered on the first call.
C11_EveryFlagOffersItsTool ==
    [][\A p \in Procs :
          MakesFirstCall(p) =>
              LET a == agent[p]
                  names == OfferedNames(calls'[p][1])
              IN /\ "send_notification" \in names <=> a.tool_notification
                 /\ "scrape_website" \in names <=> a.tool_website_scrape
                 /\ "run_command" \in names <=> a.tool_run_command]_vars

\* C11: on the first call the send_notification definition, its description and
\* its usage guidance are there if and only if tool_notification is set, and the
\* same for run_command and tool_run_command; tool_website_scrape adds no tool
\* and no prompt text; with neither of the two flags set the request carries no
\* tools and the system prompt is exactly the base prompt.
C11_ToolsFollowFlags ==
    [][\A p \in Procs :
          MakesFirstCall(p) =>
              LET a == agent[p]
                  first == calls'[p][1]
                  prompt == SystemMessage(first).content
              IN /\ SystemMessage(first).role = "system"
                 /\ Offered(first) \subseteq {ToolDefinition_notification, ToolDefinition_run_command}
                 /\ ToolDefinition_notification \in Offered(first) <=> a.tool_notification
                 /\ ToolDefinition_run_command \in Offered(first) <=> a.tool_run_command
                 /\ Contains(prompt, DescNotification) <=> a.tool_notification
                 /\ Contains(prompt, NotificationInstructions[1]) <=> a.tool_notification
                 /\ Contains(prompt, DescRunCommand) <=> a.tool_run_command
                 /\ Contains(prompt, RunCommandInstructions[1]) <=> a.tool_run_command
                 /\ (~a.tool_notification /\ ~a.tool_run_command) =>
                        (first.tools = None /\ prompt = a.prompt)]_vars

\* The first call was made for an agent that may only scrape: no tools, the
\* base prompt.
C11_Witness ==
    \E p \in Procs :
        /\ calls[p] # <<>>
        /\ agent[p].tool_website_scrape
        /\ ~agent[p].tool_notification /\ ~agent[p].tool_run_command
        /\ calls[p][1].tools = None
        /\ calls[p][1].sent

\* A message names the configured command / the configured URL.
MentionsCommand(m, cmd) == split_whitespace(cmd) # <<>> /\ Contains(m.content, Str(cmd))
MentionsUrl(m, url) == Contains(m.content, url)
SentMessages(p) == UNION {Range(calls[p][i].messages) : i \in DOMAIN calls[p]}
EffectsBeforeFirstCall(p, kind) ==
    IF calls[p] = <<>> THEN {i \in DOMAIN effects[p] : effects[p][i].kind = kind} ELSE {}

\* C12: with tool_run_command off, a configured command is not executed before
\* the first call and no message sent to the model names it; with
\* tool_website_scrape off, a configured website_url is not scraped and no
\* message sent to the model names it.
C12_StaticParametersGated ==
    \A p \in Procs :
        /\ (~agent[p].tool_run_command /\ IsSome(agent[p].command)) =>
               /\ EffectsBeforeFirstCall(p, "spawn") = {}
               /\ \A m \in SentMessages(p) : ~MentionsCommand(m, agent[p].command[1])
        /\ (~agent[p].tool_website_scrape /\ IsSome(agent[p].website_url)) =>
               /\ EffectsBeforeFirstCall(p, "scrape") = {}
               /\ \A m \in SentMessages(p) : ~MentionsUrl(m, agent[p].website_url[1])

\* The half of C12 that the code keeps: the configured URL and its flag.
C12_ScrapeGated ==
    \A p \in Procs :
        (~agent[p].tool_website_scrape /\ IsSome(agent[p].website_url)) =>
            /\ EffectsBeforeFirstCall(p, "scrape") = {}
            /\ \A m \in SentMessages(p) : ~MentionsUrl(m, agent[p].website_url[1])

(***************************************************************************)
(* The tool executor.                                                      *)
(***************************************************************************)
ExecutesTool(p) == Len(executed'[p]) = Len(executed[p]) + 1
RequestedCall(p, i) == choice[p].tool_calls[1][i]
Malformed(tool_call) == from_str(tool_call.function.arguments) = None
MissingMessage == Err("Missing 'message' argument")

\* C13: a tool call whose arguments are not valid JSON is executed with the
\* empty object: the invocation goes on, and send_notification with such
\* arguments returns the missing-argument error for 'message' and persists no
\* notification.
C13_MalformedArgumentsAreEmptyObject ==
    [][\A p \in Procs :
          (ExecutesTool(p) /\ Malformed(RequestedCall(p, Len(executed'[p])))) =>
              LET tool_call == RequestedCall(p, Len(executed'[p]))
                  outcome == executed'[p][Len(executed'[p])]
              IN /\ outcome \in {o.result : o \in execute_tool(tool_call.function.name, EmptyObject)}
                 /\ pc'[p] \in {"tools", "second_call"}
                 /\ result'[p] = None
                 /\ tool_call.function.name = "send_notification" =>
                        /\ outcome = MissingMessage
                        /\ notifications' = notifications
                        /\ effects'[p] = effects[p]]_vars

\* A send_notification call with malformed arguments was answered with the
\* missing-argument error, nothing was persisted, and the second call was made.
C13_Witness ==
    \E p \in Procs :
        /\ Len(calls[p]) = 2 /\ calls[p][2].sent
        /\ executed[p] = <<MissingMessage>>
        /\ RequestedCall(p, 1) = ToolCall("send_notification", ArgsMalformed)
        /\ tool_results[p] = <<ChatMessage("tool", "Error: Missing 'message' argument")>>
        /\ notifications = <<>>

(***************************************************************************)
(* Shell-like word splitting, as C14 describes it: whitespace separates     *)
(* words, single and double quotes group, a backslash takes the next        *)
(* character literally (inside single quotes it is an ordinary character);  *)
(* nothing is expanded.  None when a quote or an escape is left open.       *)
(***************************************************************************)
RECURSIVE ShellFrom(_, _, _, _, _)
ShellFrom(cs, word, inword, mode, acc) ==
    IF cs = <<>>
    THEN IF mode # "plain" THEN None
         ELSE Some(IF inword THEN Append(acc, word) ELSE acc)
    ELSE LET c == Head(cs) rest == Tail(cs) IN
         CASE mode = "single" ->
                 IF c = "'" THEN ShellFrom(rest, word, TRUE, "plain", acc)
                 ELSE ShellFrom(rest, Append(word, c), TRUE, "single", acc)
           [] mode = "double" /\ c = "\"" -> ShellFrom(rest, word, TRUE, "plain", acc)
           [] mode = "plain" /\ c = "\"" -> ShellFrom(rest, word, TRUE, "double", acc)
           [] mode = "plain" /\ c = "'" -> ShellFrom(rest, word, TRUE, "single", acc)
           [] mode # "single" /\ c = "\\" ->
                 IF rest = <<>> THEN None
                 ELSE ShellFrom(Tail(rest), Append(word, Head(rest)), TRUE, mode, acc)
           [] mode = "plain" /\ IsWhitespace(c) ->
                 ShellFrom(rest, <<>>, FALSE, "plain", IF inword THEN Append(acc, word) ELSE acc)
           [] OTHER -> ShellFrom(rest, Append(word, c), TRUE, mode, acc)

ShellWords(cs) == ShellFrom(cs, <<>>, FALSE, "plain", <<>>)

\* C14: run_command splits its command string by shell-like word splitting, so
\* the process it spawns has the first word as program and the other words,
\* quotes removed, as arguments: echo "hello world" runs echo with the one
\* argument hello world.
C14_ShellLikeSplitting ==
    [][\A p \in Procs :
          (ExecutesTool(p) /\ RequestedCall(p, Len(executed'[p])).function.name = "run_command") =>
              LET arguments == ParseArguments(RequestedCall(p, Len(executed'[p])).function.arguments)
                  command_str == get_str(arguments, "command")
              IN (IsSome(command_str) /\ IsSome(ShellWords(command_str[1]))
                     /\ ShellWords(command_str[1])[1] # <<>>) =>
                     effects'[p] = Append(effects[p], SpawnEffect(ShellWords(command_str[1])[1]))]_vars

\* What the code spawns for echo "hello world" and what C14 says it spawns.
C14_QuotedSegmentStaysOneArgument ==
    /\ SpawnEffect(ShellWords(from_str(ArgsQuotedCommand)[1].command.s)[1])
           = Effect("spawn", "echo", <<"hello world">>)
    /\ \A p \in Procs : \A i \in DOMAIN effects[p] :
           effects[p][i] # Effect("spawn", "echo", <<"\"hello", "world\"">>)

(***************************************************************************)
(* The queue manager.                                                      *)
(***************************************************************************)
Gets == {i \in DOMAIN api_log : api_log[i].op = "get_queue_manager"}
InitBefore(i) == \E j \in 1..(i - 1) : api_log[j].op = "init_queue_manager"

\* C15: get_queue_manager before any init_queue_manager returns NotInitialized;
\* every get_queue_manager after an init_queue_manager succeeds, and all of them
\* return the same instance, whatever gets and inits came earlier.
C15_Singleton ==
    /\ \A i \in Gets : ~InitBefore(i) => api_log[i].ret = NotInitialized
    /\ \A i \in Gets : InitBefore(i) => api_log[i].ret.ok
    /\ \A i, j \in Gets : (InitBefore(i) /\ InitBefore(j)) => api_log[i].ret = api_log[j].ret

\* C16: a queue row has a completion timestamp, and a response, exactly when its
\* status is completed or failed; pending and processing rows have neither.
C16_CompletionTimestamp ==
    \A id \in DOMAIN ai_queue :
        /\ ai_queue[id].status \in {"pending", "processing", "completed", "failed"}
        /\ IsSome(ai_queue[id].completed_at) <=> ai_queue[id].status \in Terminal
        /\ IsSome(ai_queue[id].response) <=> ai_queue[id].status \in Terminal

\* One row is finished and stamped while another is processing, unstamped.
C16_Witness ==
    \E i, j \in DOMAIN ai_queue :
        /\ ai_queue[i].status \in Terminal /\ IsSome(ai_queue[i].completed_at)
        /\ ai_queue[j].status = "processing" /\ ai_queue[j].completed_at = None

Enqueues(p) == pc[p] = "enqueue" /\ pc'[p] = "poll"

\* C17: enqueue persists exactly one new row, pending, and returns its id; the id
\* goes to the tail of the pending queue if and only if current_running >=
\* max_concurrent at the time; current_running, max_concurrent and every other
\* row stay as they were.
C17_EnqueueFrame ==
    [][\A p \in Procs :
          Enqueues(p) =>
              LET id == queue_id'[p] IN
              /\ Len(ai_queue') = Len(ai_queue) + 1
              /\ id = Len(ai_queue')
              /\ SubSeq(ai_queue', 1, Len(ai_queue)) = ai_queue
              /\ ai_queue'[id].status = "pending"
              /\ ai_queue'[id].response = None /\ ai_queue'[id].completed_at = None
              /\ pending_queue' = IF current_running >= max_concurrent
                                  THEN Append(pending_queue, id)
                                  ELSE pending_queue
              /\ UNCHANGED <<current_running, max_concurrent>>]_vars

\* One enqueue found a free slot and left the pending queue alone, a later one
\* found none and put its id on it.
C17_Witness ==
    /\ Len(ai_queue) = 2
    /\ pending_queue = <<2>>
    /\ ai_queue[1].status = "processing" /\ ai_queue[2].status = "pending"
    /\ current_running >= max_concurrent

Finishes(p) == pc[p] \in {"complete", "fail"} /\ pc'[p] = "done"
LastCall == api_log[Len(api_log)]
Calls(op) == Len(api_log') = Len(api_log) + 1 /\ api_log'[Len(api_log')].op = op

\* C18: complete(id, text) / fail(id, text) sets row id to completed / failed with
\* the text and a completion timestamp, decrements current_running by exactly 1
\* and removes exactly the head of the pending queue if there is one, whichever
\* id it is; no other row and no other element of the queue changes.
C18_CompleteFailEffect ==
    [][\A p \in Procs :
          Finishes(p) =>
              LET id == queue_id[p] IN
              /\ ai_queue'[id].status = (IF pc[p] = "complete" THEN "completed" ELSE "failed")
              /\ ai_queue'[id].response = Some(finishing[p].text)
              /\ IsSome(ai_queue'[id].completed_at)
              /\ DOMAIN ai_queue' = DOMAIN ai_queue
              /\ \A other \in DOMAIN ai_queue \ {id} : ai_queue'[other] = ai_queue[other]
              /\ current_running' = current_running - 1
              /\ pending_queue' = IF pending_queue = <<>> THEN <<>> ELSE Tail(pending_queue)]_vars

\* An item is finished and its id is still on the pending queue: the head its
\* complete / fail removed was another item's id.
C18_Witness ==
    \E p \in Procs :
        /\ Returned(p) /\ Enqueued(p)
        /\ RowOf(p).status \in Terminal
        /\ queue_id[p] \in Range(pending_queue)

\* C19: get_next_pending returns None and leaves the pending queue alone when
\* current_running >= max_concurrent; otherwise it removes and returns the head
\* (None if the queue is empty); current_running and the rows never change.
C19_GetNextPending ==
    [][Calls("get_next_pending") =>
          LET ret == api_log'[Len(api_log')].ret IN
          /\ current_running >= max_concurrent =>
                 (ret = None /\ pending_queue' = pending_queue)
          /\ (current_running < max_concurrent /\ pending_queue = <<>>) =>
                 (ret = None /\ pending_queue' = <<>>)
          /\ (current_running < max_concurrent /\ pending_queue # <<>>) =>
                 (ret = Some(Head(pending_queue)) /\ pending_queue' = Tail(pending_queue))
          /\ UNCHANGED <<current_running, max_concurrent, ai_queue, writes>>]_vars

\* get_next_pending took the head, id 1, off a queue of two.
C19_Witness ==
    /\ api_log # <<>>
    /\ LastCall.op = "get_next_pending" /\ LastCall.ret = Some(1)
    /\ pending_queue = <<2>>

\* C20: set_max_concurrent(n) changes the cap and nothing else: current_running,
\* the pending queue, the rows and every invocation are as they were; an
\* invocation whose item is processing can go on and be completed or failed,
\* also while current_running > max_concurrent; and from then on can_process
\* answers current_running < n.
C20_SetMaxConcurrent ==
    /\ [][Calls("set_max_concurrent") =>
             /\ max_concurrent' = api_log'[Len(api_log')].arg
             /\ UNCHANGED <<current_running, pending_queue, tables, pc, locals, history>>]_vars
    /\ [](\A p \in Procs :
             /\ pc[p] \in {"first_call", "tools", "second_call", "complete", "fail"} =>
                    ENABLED Invocation(p)
             /\ pc[p] \in {"complete", "fail"} => ENABLED CompleteOrFail(p))
    /\ []((api_log # <<>> /\ LastCall.op = "set_max_concurrent") =>
             (can_process <=> current_running < LastCall.arg))

\* The cap was lowered to 0 while an item was processing: current_running is
\* above the cap and the invocation is about to complete its item.
C20_Witness ==
    \E p \in Procs :
        /\ api_log # <<>> /\ LastCall.op = "set_max_concurrent" /\ LastCall.arg = 0
        /\ current_running > max_concurrent
        /\ pc[p] = "complete" /\ RowOf(p).status = "processing"

\* C21: when every start_processing directly follows a can_process that answered
\* true, with no other operation on the manager in between, and the cap is never
\* lowered, current_running never exceeds max_concurrent.
C21_GatedAdmissionCap == current_running <= max_concurrent

\* One invocation holds the only slot while the other, enqueued, is kept polling.
C21_Witness ==
    \E p, q \in Procs :
        /\ pc[p] \in {"first_call", "tools", "second_call", "complete", "fail"}
        /\ pc[q] = "poll" /\ Enqueued(q)
        /\ current_running = 1 /\ max_concurrent = 1

IsPrefix(a, b) == Len(a) <= Len(b) /\ SubSeq(b, 1, Len(a)) = a
Lifecycles == {<<"pending", "processing", "completed">>, <<"pending", "processing", "failed">>}

\* C22: the statuses written to a queue item, in order, are a prefix of pending,
\* processing, completed or of pending, processing, failed: processing is
\* written at most once and from pending, a terminal status at most once and
\* from processing, and nothing after a terminal status; the row carries the
\* status written last.
C22_ItemLifecycle ==
    \A id \in DOMAIN ai_queue :
        /\ writes[id] # <<>>
        /\ \E full \in Lifecycles : IsPrefix(writes[id], full)
        /\ ai_queue[id].status = writes[id][Len(writes[id])]

\* Two concurrent invocations took their items through the whole lifecycle, one
\* to completed and one to failed.
C22_Witness ==
    /\ Len(writes) = 2
    /\ writes[1] = <<"pending", "processing", "completed">>
    /\ writes[2] = <<"pending", "processing", "failed">>

Requested(p) == IF IsSome(choice[p].tool_calls) THEN choice[p].tool_calls[1] ELSE <<>>
WritesTerminal(p) ==
    /\ Enqueued(p)
    /\ TerminalWrites(queue_id[p]) = {}
    /\ \E i \in DOMAIN writes'[queue_id[p]] : writes'[queue_id[p]][i] \in Terminal

\* C23: in one invocation the events come in the order enqueue,
\* start_processing, first call, tool executions, second call, complete/fail.
\* At most two calls are made and the second carries no tool definitions; the
\* requested tool calls are executed once each, in order, between the two
\* calls; nothing is executed after the second call, whatever its response
\* contains, and nothing is called or executed after complete/fail.
C23_StepOrdering ==
    /\ [](\A p \in Procs :
             /\ Len(calls[p]) <= 2
             /\ calls[p] # <<>> =>
                    (Enqueued(p) /\ IsPrefix(<<"pending", "processing">>, writes[queue_id[p]]))
             /\ executed[p] # <<>> =>
                    (Len(calls[p]) >= 1 /\ Len(executed[p]) <= Len(Requested(p)))
             /\ \A i \in DOMAIN executed[p] : executed[p][i] \in ResultsOf(Requested(p)[i])
             /\ Len(calls[p]) = 2 =>
                    (calls[p][2].tools = None /\ Len(executed[p]) = Len(Requested(p)))
             /\ (Enqueued(p) /\ TerminalWrites(queue_id[p]) # {}) => Len(calls[p]) >= 1)
    /\ [][\A p \in Procs :
             /\ Len(calls'[p]) > Len(calls[p]) =>
                    /\ Len(calls'[p]) = Len(calls[p]) + 1
                    /\ TerminalWrites(queue_id[p]) = {}
                    /\ calls[p] = <<>> => executed[p] = <<>>
                    /\ executed'[p] = executed[p]
             /\ executed'[p] # executed[p] =>
                    /\ Len(calls[p]) = 1 /\ calls'[p] = calls[p]
                    /\ Len(executed'[p]) = Len(executed[p]) + 1
                    /\ SubSeq(executed'[p], 1, Len(executed[p])) = executed[p]
             /\ WritesTerminal(p) => (calls'[p] = calls[p] /\ executed'[p] = executed[p])
             /\ Returned(p) =>
                    (calls'[p] = calls[p] /\ executed'[p] = executed[p] /\ pc'[p] = "done")]_vars

\* An invocation went through every step: two tool calls run between its two
\* calls, then its item completed.
C23_Witness ==
    \E p \in Procs :
        /\ Returned(p) /\ Len(calls[p]) = 2
        /\ Len(executed[p]) = 2 /\ Len(Requested(p)) = 2
        /\ writes[queue_id[p]] = <<"pending", "processing", "completed">>

(***************************************************************************)
(* Pre-execution.                                                          *)
(***************************************************************************)
PreExecutes(p) == pc[p] = "pre_execute" /\ pc'[p] # "pre_execute"
Did(effs, kind) == \E i \in DOMAIN effs : effs[i].kind = kind
IsAnalysis(m) ==
    m.role = "user" /\ Contains(m.content, "Please analyze the following website content from ")
IsCommandReport(m) ==
    m.role = "user" /\ Contains(m.content, "Input command execution result for '")
IsCommandError(m) ==
    m.role = "user" /\ Contains(m.content, "Error executing input command '")
Count(msgs, Test(_)) == Cardinality({i \in DOMAIN msgs : Test(msgs[i])})

\* C24: the configured scrape adds one user message when it succeeds and none
\* when it fails; the configured input command, once run, adds exactly one user
\* message, its report or, when it fails, the description of the error; either
\* way the invocation goes on to enqueue and to the first call, whose
\* conversation starts with exactly one system message.
C24_PreExecutionRecovered ==
    /\ [][\A p \in Procs :
             PreExecutes(p) =>
                 LET added == SubSeq(messages'[p], 2, Len(messages'[p])) IN
                 /\ messages[p] = <<ChatMessage("system", SystemPrompt(agent[p]))>>
                 /\ messages'[p][1] = messages[p][1]
                 /\ Count(messages'[p], LAMBDA m : m.role = "system") = 1
                 /\ Count(added, IsAnalysis) <= 1
                 /\ ~Did(effects'[p], "scrape") => Count(added, IsAnalysis) = 0
                 /\ Count(added, IsCommandReport) + Count(added, IsCommandError)
                        = (IF Did(effects'[p], "spawn") THEN 1 ELSE 0)
                 /\ Len(added) = Count(added, IsAnalysis) + Count(added, IsCommandReport)
                                     + Count(added, IsCommandError)
                 /\ pc'[p] = "enqueue"
                 /\ result'[p] = None]_vars
    /\ [](\A p \in Procs :
             /\ pc[p] = "enqueue" => ENABLED Enqueue(p)
             /\ calls[p] # <<>> =>
                    /\ calls[p][1].messages = messages[p]
                    /\ messages[p][1].role = "system"
                    /\ Count(messages[p], LAMBDA m : m.role = "system") = 1)

\* The scrape failed and the input command failed: the first call was made with
\* the system message and the one user message that describes the error.
C24_Witness ==
    \E p \in Procs :
        /\ calls[p] # <<>> /\ calls[p][1].sent
        /\ Did(effects[p], "scrape") /\ Did(effects[p], "spawn")
        /\ Len(calls[p][1].messages) = 2
        /\ IsCommandError(calls[p][1].messages[2])
        /\ Enqueued(p)

(***************************************************************************)
(* The counter of running requests.                                        *)
(***************************************************************************)
StartedBefore(id, i) == \E j \in 1..(i - 1) : writes[id][j] = "processing"

\* C25: current_running is never negative: every item is completed or failed at
\* most once, and only after its own start_processing.
C25_CounterNeverNegative ==
    /\ current_running >= 0
    /\ \A id \in DOMAIN ai_queue :
           /\ Cardinality(TerminalWrites(id)) <= 1
           /\ \A i \in TerminalWrites(id) : StartedBefore(id, i)
    /\ current_running = Cardinality({id \in DOMAIN ai_queue :
                                         /\ \E i \in DOMAIN writes[id] : writes[id][i] = "processing"
                                         /\ TerminalWrites(id) = {}})

\* Both invocations took a slot and gave it back, and the counter is back at
\* zero.
C25_Witness ==
    /\ \A p \in Procs : Returned(p) /\ Enqueued(p) /\ TerminalWrites(queue_id[p]) # {}
    /\ current_running = 0

Quiescent == \A p \in Procs : pc[p] \in {"idle", "absent", "done"}

\* C26: whenever every started invocation has returned, current_running is 0
\* and no queue row has status processing.
C26_SlotsReleasedAtQuiescence ==
    Quiescent => (current_running = 0 /\ Processing = {})

(***************************************************************************)
(* Admission.                                                              *)
(***************************************************************************)
Started(p) == Enqueued(p) /\ \E i \in DOMAIN writes[queue_id[p]] : writes[queue_id[p]][i] = "processing"

\* C27: with max_concurrent at least 1 and constant, under fair scheduling,
\* every invocation that has enqueued its item eventually leaves the polling
\* loop and calls start_processing.
C27_AdmissionLiveness ==
    \A p \in Procs : (max_concurrent >= 1 /\ Enqueued(p)) ~> Started(p)

(***************************************************************************)
(* Tool calls and capability flags.                                        *)
(***************************************************************************)
FlagOf(a, kind) ==
    CASE kind = "notification" -> a.tool_notification
      [] kind = "scrape" -> a.tool_website_scrape
      [] kind = "spawn" -> a.tool_run_command

\* C28: a tool action is executed in response to a tool call of the model only
\* if the agent's flag for that tool is true, whatever names the first response
\* contains.
C28_OnlyEnabledToolsExecuted ==
    [][\A p \in Procs :
          (ExecutesTool(p) /\ effects'[p] # effects[p]) =>
              FlagOf(agent[p], effects'[p][Len(effects'[p])].kind)]_vars

(***************************************************************************)
(* The pending FIFO.                                                       *)
(***************************************************************************)

\* C29: every id in the pending FIFO, and so every id get_next_pending can
\* return, is the id of a queue item whose persisted status is pending.
C29_FifoHoldsOnlyPending ==
    \A i \in DOMAIN pending_queue :
        /\ pending_queue[i] \in DOMAIN ai_queue
        /\ ai_queue[pending_queue[i]].status = "pending"

(***************************************************************************)
(* Persistence failures.                                                   *)
(***************************************************************************)
StoreRefused(r) == r # None /\ ~r[1].ok /\ r[1].text \in DbErrors

\* C30: when the store refuses the status update, start_processing, complete
\* and fail return the error and leave current_running and the pending FIFO as
\* they were; when it refuses the insert, enqueue returns the error and leaves
\* the pending FIFO as it was.  No row is written either.
C30_AtomicOnPersistenceFailure ==
    [][\A p \in Procs :
          (Returns(p) /\ StoreRefused(result'[p])) =>
              /\ pc[p] \in {"enqueue", "start_processing", "complete", "fail"}
              /\ current_running' = current_running
              /\ pending_queue' = pending_queue
              /\ ai_queue' = ai_queue
              /\ writes' = writes
              /\ pc[p] = "enqueue" => queue_id'[p] = 0]_vars

\* The store refused the terminal update of a running item while another item
\* was waiting in the FIFO: the item is still processing, the slot still taken
\* and the FIFO still holds the other id.
C30_Witness ==
    \E p \in Procs :
        /\ Returned(p) /\ StoreRefused(result[p])
        /\ Enqueued(p) /\ RowOf(p).status = "processing"
        /\ current_running = 1
        /\ pending_queue # <<>>

====
